---- MODULE Spec2Model ----
(***************************************************************************)
(* dashboard.py: one linear script.  It loads data.csv into a time-indexed *)
(* table (load_data), shows the sidebar, copies and resamples the table,   *)
(* shows four key metrics, draws the charts, counts the three percentile   *)
(* alerts and shows the raw preview.  Each statement group is one action;  *)
(* pc is the script's position.  An uncaught exception ends the run        *)
(* (pc = "failed").                                                        *)
(*                                                                         *)
(* Time is counted in minutes since the epoch.  Sensor values are          *)
(* integers; means, percentages and percentile thresholds are exact        *)
(* rationals kept as scaled integers (float64 rounding is not modelled).   *)
(***************************************************************************)
EXTENDS Integers, Sequences, FiniteSets, TLC

VARIABLES
    pc,                \* position of the script
    file,              \* data.csv: the sequence of its data rows
    heap,              \* the DataFrame objects allocated so far
    df,                \* reference (index into heap) held by df, 0 = unbound
    df_dashboard,      \* reference held by df_dashboard, 0 = unbound
    df_hourly,         \* the hourly aggregate: a sequence of buckets
    metrics,           \* << >> or <<the four values given to st.metric>>
    alert_conditions,  \* << >> or <<the three alert counts>>
    error              \* the uncaught exception, type "none" while running

vars == <<pc, file, heap, df, df_dashboard, df_hourly, metrics,
          alert_conditions, error>>

----------------------------------------------------------------------------
(* Bounds of the model *)

\* rows of a small input file
MaxRows == 3
\* rows of a medium input file (the percentile alerts need 20 and more)
MaxAlertRows == 22
\* rows of a large input file (one-decimal rounding shows from 2000 rows on)
MaxBigRows == 2001

(* Program constants *)

\* resample('1h'), in minutes
Hour == 60
\* quantile(0.95) and quantile(0.05), in hundredths
QHigh == 95
QLow == 5
\* numpy's quicksort sorts a run of at most SMALL_QUICKSORT + 1 elements by
\* insertion, which is stable; a longer run is partitioned, which is not
SmallQuicksort == 16

\* pandas' NaT (missing timestamp); every parsed timestamp is >= 0
NaT == -1

----------------------------------------------------------------------------
(* The input file *)

\* the header row of data.csv, as the rename map of load_data spells it
\* ("(C)" stands for the degree sign and C of the source)
Headers ==
    {"Timestamp", "Vibration Level (mm/s)", "Machine Speed (RPM)",
     "Production Quality Score", "Optimal Conditions",
     "Energy Consumption (kWh)", "Temperature (C)"}

\* the renames of load_data; DateTime then becomes the index
ColumnMap ==
    [h \in Headers |->
        CASE h = "Timestamp" -> "DateTime"
          [] h = "Vibration Level (mm/s)" -> "Vibration_Level"
          [] h = "Machine Speed (RPM)" -> "Machine_Speed"
          [] h = "Production Quality Score" -> "Production_Quality_Score"
          [] h = "Optimal Conditions" -> "Optimal_Conditions"
          [] h = "Energy Consumption (kWh)" -> "Energy_Consumption"
          [] h = "Temperature (C)" -> "Temperature"]

DataColumns ==
    {"Vibration_Level", "Machine_Speed", "Production_Quality_Score",
     "Optimal_Conditions", "Energy_Consumption", "Temperature"}

\* A Timestamp cell of the file: a date-time string ("ts", t minutes), one of
\* read_csv's missing-value strings such as "", "NA", "null" ("na"), or any
\* other text such as "not-a-date" ("bad").
TsCell(kind, t) == [kind |-> kind, t |-> t]

SmallTsCells ==
    {TsCell("ts", t) : t \in {0, 30, 60, 150}}
        \cup {TsCell("na", 0), TsCell("bad", 0)}

\* the sensor readings a row may carry
Reading(k) ==
    CASE k = 1 -> [vib |-> 0, speed |-> 10, quality |-> 30, optimal |-> TRUE,
                   energy |-> 1, temp |-> 20]
      [] k = 2 -> [vib |-> 1, speed |-> 20, quality |-> 0, optimal |-> FALSE,
                   energy |-> 30, temp |-> 25]
      [] k = 3 -> [vib |-> 30, speed |-> 30, quality |-> 1, optimal |-> TRUE,
                   energy |-> 0, temp |-> 30]

RawRow(cell, k) ==
    [h \in Headers |->
        CASE h = "Timestamp" -> cell
          [] h = "Vibration Level (mm/s)" -> Reading(k).vib
          [] h = "Machine Speed (RPM)" -> Reading(k).speed
          [] h = "Production Quality Score" -> Reading(k).quality
          [] h = "Optimal Conditions" -> Reading(k).optimal
          [] h = "Energy Consumption (kWh)" -> Reading(k).energy
          [] h = "Temperature (C)" -> Reading(k).temp]

SmallRows == {RawRow(c, k) : c \in SmallTsCells, k \in {1, 2}}

SmallFiles == UNION {[1..n -> SmallRows] : n \in 0..MaxRows}

\* Medium files: c1 rows of reading 1, then c2 of reading 2, then reading 3,
\* written latest first, 25 minutes apart; in the "tie" arrangement the first
\* row carries the last row's timestamp.
AlertFile(n, c1, c2, arr) ==
    [i \in 1..n |->
        RawRow(TsCell("ts", IF arr = "tie" /\ i = 1 THEN 0
                            ELSE (n - i) * 25),
               IF i <= c1 THEN 1 ELSE IF i <= c1 + c2 THEN 2 ELSE 3)]

AlertFiles ==
    UNION {UNION {{AlertFile(n, c1, c2, arr) :
                      c2 \in 0..(n - c1), arr \in {"desc", "tie"}} :
                  c1 \in 0..n} :
           n \in 1..MaxAlertRows}

\* Large files: k rows with Optimal Conditions true, then n - k false ones,
\* one minute apart, oldest first.
BigFile(n, k) ==
    [i \in 1..n |-> RawRow(TsCell("ts", i), IF i <= k THEN 1 ELSE 2)]

BigFiles ==
    UNION {{BigFile(n, k) : k \in {0, 1, n - 1, n}} :
           n \in {MaxBigRows - 2, MaxBigRows}}

----------------------------------------------------------------------------
(* Tables.  A table is [columns, rows]; a row is [index, cells], cells a     *)
(* function from the table's columns to values.                              *)

Column(t, c) == [i \in 1..Len(t.rows) |-> t.rows[i].cells[c]]

Index(t) == [i \in 1..Len(t.rows) |-> t.rows[i].index]

\* Optimal_Conditions is boolean; sum() and mean() count True as 1
Num(c, v) == IF c = "Optimal_Conditions" THEN (IF v THEN 1 ELSE 0) ELSE v

NumColumn(t, c) == [i \in 1..Len(t.rows) |-> Num(c, t.rows[i].cells[c])]

Range(s) == {s[i] : i \in DOMAIN s}

\* the element of a one-element set; {e(x) : x \in {v}} evaluates v once
The(S) == CHOOSE x \in S : TRUE

RECURSIVE WeightedSum(_, _)
WeightedSum(vals, s) ==
    IF vals = {} THEN 0
    ELSE LET v == CHOOSE x \in vals : TRUE
         IN  v * Cardinality({i \in DOMAIN s : s[i] = v})
                 + WeightedSum(vals \ {v}, s)

\* Series.sum()
SumSeq(s) == The({WeightedSum(Range(x), x) : x \in {s}})

\* Series.mean(): NaN for no values, else the exact quotient num / den
Mean(s) ==
    The({IF Len(x) = 0 THEN [nan |-> TRUE, num |-> 0, den |-> 1]
         ELSE [nan |-> FALSE, num |-> SumSeq(x), den |-> Len(x)] : x \in {s}})

MinOf(S) == CHOOSE x \in S : \A y \in S : x <= y

MaxOf(S) == 0 - MinOf({0 - x : x \in S})

----------------------------------------------------------------------------
(* load_data *)

\* position (0-based, as pandas reports it) of the first Timestamp cell that
\* pd.to_datetime cannot parse; -1 when there is none.  read_csv has already
\* turned the missing-value strings into NaN, which to_datetime accepts.
FirstUnparseable(f) ==
    LET bad == {i \in 1..Len(f) : f[i]["Timestamp"].kind = "bad"}
    IN  IF bad = {} THEN -1 ELSE MinOf(bad) - 1

\* pd.to_datetime on one cell that it accepts: NaN becomes NaT
ToDatetime(cell) == IF cell.kind = "ts" THEN cell.t ELSE NaT

\* rename(columns=...) and set_index('DateTime') on one row
IndexedRow(raw) ==
    [index |-> ToDatetime(raw["Timestamp"]),
     cells |-> [c \in DataColumns |->
                   raw[CHOOSE h \in Headers : ColumnMap[h] = c]]]

IsStrictlyAscending(rows) ==
    \A i \in 1..(Len(rows) - 1) : rows[i].index < rows[i + 1].index

\* the stable sort of rows by index
InsertionSort(rows) ==
    LET n == Len(rows)
        place(i) ==
            Cardinality({j \in 1..n : rows[j].index < rows[i].index})
                + Cardinality({j \in 1..i : rows[j].index = rows[i].index})
    IN  [k \in 1..n |-> rows[CHOOSE i \in 1..n : place(i) = k]]

\* every order of rows that is ascending by index
RECURSIVE Arrangements(_)
Arrangements(rows) ==
    IF rows = << >> THEN {<< >>}
    ELSE LET t == MinOf({rows[i].index : i \in 1..Len(rows)})
             grp == SelectSeq(rows, LAMBDA r : r.index = t)
             rest == SelectSeq(rows, LAMBDA r : r.index # t)
         IN  {[i \in 1..Len(grp) |-> grp[p[i]]] \o r :
                 p \in Permutations(1..Len(grp)), r \in Arrangements(rest)}

\* argsort(kind='quicksort') of the rows that have a timestamp.  numpy's
\* quicksort is not stable: it sorts up to SmallQuicksort + 1 elements by
\* insertion, and partitions more than that, which may reorder equal keys.
ArgsortOutcomes(rows) ==
    IF IsStrictlyAscending(rows) THEN {rows}
    ELSE IF Len(rows) <= SmallQuicksort + 1 THEN {InsertionSort(rows)}
    ELSE Arrangements(rows)

\* sort_values('DateTime'): ascending, the rows without a timestamp last and
\* in their order of appearance (na_position='last')
SortValuesOutcomes(rows) ==
    LET valid == SelectSeq(rows, LAMBDA r : r.index # NaT)
        nat == SelectSeq(rows, LAMBDA r : r.index = NaT)
    IN  {s \o nat : s \in ArgsortOutcomes(valid)}

NoError == [type |-> "none", line |-> 0, position |-> -1]

LoadData ==
    /\ pc = "load"
    /\ IF FirstUnparseable(file) >= 0
       THEN /\ error' = [type |-> "ValueError", line |-> 20,
                         position |-> FirstUnparseable(file)]
            /\ pc' = "failed"
            /\ UNCHANGED <<heap, df>>
       ELSE \E s \in SortValuesOutcomes([i \in 1..Len(file) |->
                                            IndexedRow(file[i])]) :
                /\ heap' = Append(heap, [columns |-> DataColumns, rows |-> s])
                /\ df' = Len(heap) + 1
                /\ pc' = "sidebar"
                /\ UNCHANGED error
    /\ UNCHANGED <<file, df_dashboard, df_hourly, metrics, alert_conditions>>

\* the table a variable refers to
Df == heap[df]

Dashboard == heap[df_dashboard]

\* the timestamps of a table's index, NaT left out
ValidTimes(t) == {t.rows[i].index : i \in 1..Len(t.rows)} \ {NaT}

\* Sidebar: len(df), and the date range df.index.min() to df.index.max().
\* min() and max() skip NaT; with no timestamp at all they are NaT, and
\* NaT.strftime raises ValueError.
Sidebar ==
    /\ pc = "sidebar"
    /\ IF ValidTimes(Df) = {}
       THEN /\ error' = [type |-> "ValueError", line |-> 39, position |-> -1]
            /\ pc' = "failed"
       ELSE /\ pc' = "copy"
            /\ UNCHANGED error
    /\ UNCHANGED <<file, heap, df, df_dashboard, df_hourly, metrics,
                   alert_conditions>>

----------------------------------------------------------------------------
(* Prepare data: lines 45 to 47 *)

\* mutant: df_dashboard = df, a second name for the same object
CopyAlias ==
    /\ pc = "copy"
    /\ df_dashboard' = df
    /\ pc' = "resample"
    /\ UNCHANGED <<file, heap, df, df_hourly, metrics, alert_conditions, error>>

\* df_dashboard = df.copy(): a new object with df's data
CopyDf ==
    /\ pc = "copy"
    /\ heap' = Append(heap, Df)
    /\ df_dashboard' = Len(heap) + 1
    /\ pc' = "resample"
    /\ UNCHANGED <<file, df, df_hourly, metrics, alert_conditions, error>>

FloorHour(t) == (t \div Hour) * Hour

\* the rows that have a timestamp, in index order
SortedValid(t) ==
    The({IF \A i \in 1..(Len(valid) - 1) :
                valid[i].index <= valid[i + 1].index
         THEN valid ELSE InsertionSort(valid) :
            valid \in {SelectSeq(t.rows, LAMBDA r : r.index # NaT)}})

\* mutant: bins closed on the right (closed='right')
BinEndsClosedRight(sorted, first, nb) ==
    [k \in 0..nb |->
        Cardinality({i \in 1..Len(sorted) :
                        k > 0 /\ sorted[i].index <= first + k * Hour})]

\* bins[k], k in 0..nb: the number of rows before the k-th hour boundary
BinEnds(sorted, first, nb) ==
    [k \in 0..nb |->
        Cardinality({i \in 1..Len(sorted) :
                        sorted[i].index < first + k * Hour})]

\* bucket k holds rows bins[k-1]+1 .. bins[k]; each column's value is the
\* mean of the bucket's rows
BucketMeans(sorted, bins, first, nb, columns) ==
    [k \in 1..nb |->
        [start |-> first + (k - 1) * Hour,
         mean |-> [c \in columns |->
                     Mean([i \in 1..(bins[k] - bins[k - 1]) |->
                             Num(c, sorted[bins[k - 1] + i].cells[c])])]]]

\* mutant: the length of the time range in hours, rounded up
BinCountCeil(tmin, tmax) == (tmax - tmin + Hour - 1) \div Hour

\* the number of bins for timestamps from tmin to tmax: the bin edges run
\* from the hour boundary at or before tmin to the first one after tmax
BinCount(tmin, tmax) == (FloorHour(tmax) + Hour - FloorHour(tmin)) \div Hour

\* resample('1h').mean(): the rows that have a timestamp are cut at the hour
\* boundaries, from the hour of the first to the hour after the last (bins
\* closed and labelled on the left)
ResampleMean(t) ==
    IF ValidTimes(t) = {} THEN << >>
    ELSE The({The({BucketMeans(sorted, bins, e[1], e[2], t.columns) :
                      bins \in {BinEnds(sorted, e[1], e[2])}}) :
                 sorted \in {SortedValid(t)},
                 e \in {<<FloorHour(MinOf(ValidTimes(t))),
                          BinCount(MinOf(ValidTimes(t)),
                                   MaxOf(ValidTimes(t)))>>}})

Resample ==
    /\ pc = "resample"
    /\ df_hourly' = ResampleMean(Dashboard)
    /\ pc' = "datetime"
    /\ UNCHANGED <<file, heap, df, df_dashboard, metrics, alert_conditions,
                   error>>

\* t['DateTime'] = t.index
WithDateTime(t) ==
    [columns |-> t.columns \cup {"DateTime"},
     rows |-> [i \in 1..Len(t.rows) |->
                 [index |-> t.rows[i].index,
                  cells |-> [c \in t.columns \cup {"DateTime"} |->
                               IF c = "DateTime" THEN t.rows[i].index
                               ELSE t.rows[i].cells[c]]]]]

AddDateTime ==
    /\ pc = "datetime"
    /\ heap' = [heap EXCEPT ![df_dashboard] = WithDateTime(@)]
    /\ pc' = "metrics"
    /\ UNCHANGED <<file, df, df_dashboard, df_hourly, metrics,
                   alert_conditions, error>>

----------------------------------------------------------------------------
(* Row 1: key metrics, lines 50 to 54 *)

\* the integers nearest to num / den (num >= 0, den > 0); both neighbours
\* when num / den lies exactly half way, where the binary value decides
RoundOutcomes(num, den) ==
    {q \in {num \div den, num \div den + 1} :
        /\ 2 * (q * den - num) <= den
        /\ 2 * (num - q * den) <= den}

\* f"{x:.<d>f}" with scale = 10^d: the value in units of 1/scale, or nan
FormatFixed(m, scale) ==
    IF m.nan THEN {[nan |-> TRUE, v |-> 0]}
    ELSE {[nan |-> FALSE, v |-> q] : q \in RoundOutcomes(m.num * scale, m.den)}

\* mutant: the fraction, not multiplied by 100
OptimalFraction(t) ==
    IF Len(t.rows) = 0 THEN [nan |-> TRUE, num |-> 0, den |-> 1]
    ELSE [nan |-> FALSE,
          num |-> SumSeq(NumColumn(t, "Optimal_Conditions")),
          den |-> Len(t.rows)]

\* df['Optimal_Conditions'].sum() / len(df) * 100
OptimalPct(t) ==
    IF Len(t.rows) = 0 THEN [nan |-> TRUE, num |-> 0, den |-> 1]
    ELSE [nan |-> FALSE,
          num |-> SumSeq(NumColumn(t, "Optimal_Conditions")) * 100,
          den |-> Len(t.rows)]

KeyMetrics ==
    /\ pc = "metrics"
    /\ \E q \in FormatFixed(Mean(NumColumn(Df, "Production_Quality_Score")), 100),
          s \in FormatFixed(Mean(NumColumn(Df, "Machine_Speed")), 1),
          e \in FormatFixed(Mean(NumColumn(Df, "Energy_Consumption")), 100),
          o \in FormatFixed(OptimalPct(Df), 10) :
            metrics' = <<[avg_quality |-> q, avg_speed |-> s,
                          avg_energy |-> e, optimal_pct |-> o]>>
    /\ pc' = "charts"
    /\ UNCHANGED <<file, heap, df, df_dashboard, df_hourly, alert_conditions,
                   error>>

\* Rows 2 and 3 and the sensor charts, lines 56 to 91: they read
\* df_dashboard and df_hourly and draw
Charts ==
    /\ pc = "charts"
    /\ pc' = "alerts"
    /\ UNCHANGED <<file, heap, df, df_dashboard, df_hourly, metrics,
                   alert_conditions, error>>

----------------------------------------------------------------------------
(* Quick alerts, lines 95 to 104 *)

\* the k-th smallest value of s, k in 1..Len(s)
OrderStat(s, k) ==
    CHOOSE v \in Range(s) :
        /\ Cardinality({i \in DOMAIN s : s[i] < v}) < k
        /\ k <= Cardinality({i \in DOMAIN s : s[i] <= v})

\* mutant: the upper order statistic instead of the interpolated value
\* (interpolation='higher')
QuantileHigher(s, q) ==
    100 * OrderStat(s, IF ((Len(s) - 1) * q) % 100 = 0
                       THEN ((Len(s) - 1) * q) \div 100 + 1
                       ELSE ((Len(s) - 1) * q) \div 100 + 2)

\* Series.quantile(q / 100), times 100: linear interpolation between the
\* order statistics around position (n - 1) * q / 100 (counted from 0)
Quantile100(s, q) ==
    LET pos == (Len(s) - 1) * q
        lo == pos \div 100 + 1
        fr == pos % 100
        a == OrderStat(s, lo)
        b == IF fr = 0 THEN a ELSE OrderStat(s, lo + 1)
    IN  100 * a + fr * (b - a)

\* mutant: >= in place of >
CountAtOrAbove(s, q) ==
    IF Len(s) = 0 THEN 0
    ELSE The({Cardinality({i \in DOMAIN x : 100 * x[i] >= threshold}) :
                 x \in {s}, threshold \in {Quantile100(s, q)}})

\* (s > s.quantile(q)).sum(); comparing with the NaN quantile of no values
\* is False for every row
CountAbove(s, q) ==
    IF Len(s) = 0 THEN 0
    ELSE The({Cardinality({i \in DOMAIN x : 100 * x[i] > threshold}) :
                 x \in {s}, threshold \in {Quantile100(s, q)}})

\* mutant: <= in place of <
CountAtOrBelow(s, q) ==
    IF Len(s) = 0 THEN 0
    ELSE The({Cardinality({i \in DOMAIN x : 100 * x[i] <= threshold}) :
                 x \in {s}, threshold \in {Quantile100(s, q)}})

\* (s < s.quantile(q)).sum()
CountBelow(s, q) ==
    IF Len(s) = 0 THEN 0
    ELSE The({Cardinality({i \in DOMAIN x : 100 * x[i] < threshold}) :
                 x \in {s}, threshold \in {Quantile100(s, q)}})

Alerts ==
    /\ pc = "alerts"
    /\ alert_conditions' =
          <<[a \in {"High Vibration", "Low Quality", "High Energy"} |->
              CASE a = "High Vibration" ->
                      CountAbove(NumColumn(Df, "Vibration_Level"), QHigh)
                [] a = "Low Quality" ->
                      CountBelow(NumColumn(Df, "Production_Quality_Score"), QLow)
                [] a = "High Energy" ->
                      CountAbove(NumColumn(Df, "Energy_Consumption"), QHigh)]>>
    /\ pc' = "preview"
    /\ UNCHANGED <<file, heap, df, df_dashboard, df_hourly, metrics, error>>

\* Raw data preview, lines 107 and 108: reads df_dashboard
RawPreview ==
    /\ pc = "preview"
    /\ pc' = "done"
    /\ UNCHANGED <<file, heap, df, df_dashboard, df_hourly, metrics,
                   alert_conditions, error>>

----------------------------------------------------------------------------
(* Specifications: the script run on each file of a family *)

Start(files) ==
    /\ pc = "load"
    /\ file \in files
    /\ heap = << >>
    /\ df = 0
    /\ df_dashboard = 0
    /\ df_hourly = << >>
    /\ metrics = << >>
    /\ alert_conditions = << >>
    /\ error = NoError

Init == Start(SmallFiles \cup BigFiles)

InitAlerts == Start(AlertFiles)

Next ==
    \/ LoadData
    \/ Sidebar
    \/ CopyDf
    \/ Resample
    \/ AddDateTime
    \/ KeyMetrics
    \/ Charts
    \/ Alerts
    \/ RawPreview

Spec == Init /\ [][Next]_vars

SpecAlerts == InitAlerts /\ [][Next]_vars

----------------------------------------------------------------------------
(* Claims about the percentile alerts (checked under SpecAlerts) *)

AlertsDone == alert_conditions # << >>

AlertCount(a) == alert_conditions[1][a]

RowCount == Len(Df.rows)

VibrationLevel == NumColumn(Df, "Vibration_Level")

QualityScore == NumColumn(Df, "Production_Quality_Score")

EnergyConsumption == NumColumn(Df, "Energy_Consumption")

NonConstant(s) == Cardinality(Range(s)) > 1

\* no tie reaches from the maximum down to the order statistic just below
\* the 95th-percentile position (counted from 1: floor(0.95 (n - 1)) + 1)
NoTieAtTop(s) ==
    OrderStat(s, ((Len(s) - 1) * QHigh) \div 100 + 1) < MaxOf(Range(s))

\* no tie reaches from the minimum up to the order statistic just above the
\* 5th-percentile position (counted from 1: ceil(0.05 (n - 1)) + 1)
NoTieAtBottom(s) ==
    OrderStat(s, ((Len(s) - 1) * QLow + 99) \div 100 + 1) > MinOf(Range(s))

FivePercent(n) == (n + 19) \div 20

\* C2: for a non-empty table each alert count is at most ceil(0.05 *
\* row_count) plus a slack of one row, ties included.
C2_AlertCountsBounded ==
    (AlertsDone /\ RowCount >= 1) =>
        \A a \in {"High Vibration", "Low Quality", "High Energy"} :
            AlertCount(a) <= FivePercent(RowCount) + 1

\* C2 witness: a column with ties whose alert count reaches ceil(0.05 n)
C2_Witness ==
    /\ AlertsDone
    /\ RowCount >= 21
    /\ Cardinality(Range(VibrationLevel)) < RowCount
    /\ AlertCount("High Vibration") = FivePercent(RowCount)

\* one row's value is strictly greater than every other row's
UniqueMaximum(s) ==
    Cardinality({i \in DOMAIN s : s[i] = MaxOf(Range(s))}) = 1

----------------------------------------------------------------------------
(* Claims about the key metrics and the hourly aggregate (checked under     *)
(* Spec)                                                                    *)

MetricsDone == metrics # << >>

\* the displayed Optimal Conditions percentage, in tenths of a percent
OptimalShown == metrics[1].optimal_pct

\* the number of rows whose Optimal_Conditions is true
OptimalRows ==
    Cardinality({i \in 1..RowCount : Df.rows[i].cells["Optimal_Conditions"]})

\* C3 as stated: the percentage to one decimal place is in [0, 100], is 100
\* if and only if every row is optimal, and is 0 if and only if none is.
C3_OptimalPctExact ==
    (MetricsDone /\ RowCount > 0) =>
        /\ ~OptimalShown.nan
        /\ OptimalShown.v \in 0..1000
        /\ OptimalShown.v = 1000 <=> OptimalRows = RowCount
        /\ OptimalShown.v = 0 <=> OptimalRows = 0

\* C3 amended: the percentage to one decimal place is in [0, 100], is 100.0
\* when every row is optimal and 0.0 when none is; the converses hold for
\* tables of fewer than 2000 rows (from 2000 rows on, one differing row is
\* rounded away).
C3_OptimalPctRounded ==
    (MetricsDone /\ RowCount > 0) =>
        /\ ~OptimalShown.nan
        /\ OptimalShown.v \in 0..1000
        /\ OptimalRows = RowCount => OptimalShown.v = 1000
        /\ OptimalRows = 0 => OptimalShown.v = 0
        /\ RowCount < 2000 =>
              /\ OptimalShown.v = 1000 => OptimalRows = RowCount
              /\ OptimalShown.v = 0 => OptimalRows = 0

\* C3 witness: a table of nearly 2000 rows, all but one optimal, shown below
\* 100.0
C3_Witness ==
    /\ MetricsDone
    /\ RowCount >= 1000
    /\ RowCount < 2000
    /\ OptimalRows = RowCount - 1
    /\ OptimalShown.v = 999

HourlyDone == pc \in {"datetime", "metrics", "charts", "alerts", "preview",
                      "done"}

MinTs == MinOf(ValidTimes(Df))

MaxTs == MaxOf(ValidTimes(Df))

\* C4 as stated: the number of hourly buckets is ceil((max_ts - min_ts) / 1h).
C4_BucketCountIsCeilOfRange ==
    HourlyDone => Len(df_hourly) = (MaxTs - MinTs + Hour - 1) \div Hour

\* C4 amended: the buckets are the wall-clock hours from the one that holds
\* min_ts to the one that holds max_ts, both included, so their number is
\* floor(max_ts / 1h) - floor(min_ts / 1h) + 1, and bucket k starts k - 1
\* hours after the hour boundary at or before min_ts.
C4_BucketCountIsHoursTouched ==
    HourlyDone =>
        /\ Len(df_hourly) = (MaxTs \div Hour) - (MinTs \div Hour) + 1
        /\ \A k \in 1..Len(df_hourly) :
              df_hourly[k].start = (MinTs \div Hour + k - 1) * Hour

\* C4 witness: a range that starts inside an hour and touches three hours
C4_Witness ==
    /\ HourlyDone
    /\ MinTs % Hour # 0
    /\ MaxTs - MinTs = 2 * Hour
    /\ Len(df_hourly) = 3

\* the rows of df whose timestamp lies in [start, start + 1h)
RowsIn(start) ==
    {i \in 1..RowCount :
        /\ Df.rows[i].index # NaT
        /\ start <= Df.rows[i].index
        /\ Df.rows[i].index < start + Hour}

RECURSIVE SumOver(_, _)
SumOver(S, c) ==
    IF S = {} THEN 0
    ELSE LET i == CHOOSE x \in S : TRUE
         IN  Num(c, Df.rows[i].cells[c]) + SumOver(S \ {i}, c)

\* C8: each bucket's value for a field is the mean of the field over exactly
\* the rows with timestamp in [bucket_start, bucket_start + 1h); a bucket
\* with no rows carries the no-data marker (NaN) for every field, not zero.
C8_BucketIsMeanOfItsHour ==
    HourlyDone =>
        \A k \in 1..Len(df_hourly) : \A c \in DataColumns :
            LET S == RowsIn(df_hourly[k].start)
                m == df_hourly[k].mean[c]
            IN  IF S = {} THEN m.nan
                ELSE /\ ~m.nan
                     /\ m.den > 0
                     /\ m.num * Cardinality(S) = SumOver(S, c) * m.den

\* C8 witness: an empty bucket after a bucket of two different rows
C8_Witness ==
    /\ HourlyDone
    /\ \E k \in 1..Len(df_hourly) :
          /\ RowsIn(df_hourly[k].start) = {}
          /\ df_hourly[k].mean["Vibration_Level"].nan
    /\ \E k \in 1..Len(df_hourly) :
          /\ Cardinality(RowsIn(df_hourly[k].start)) = 2
          /\ df_hourly[k].mean["Vibration_Level"]
                = [nan |-> FALSE, num |-> 1, den |-> 2]

----------------------------------------------------------------------------
(* Claims about load_data and the loaded table *)

\* C9: once load_data has returned, no step changes the loaded table: df
\* keeps referring to the same object, with the columns load_data gave it,
\* and no step writes to that object.
C9_DfNeverChanged ==
    /\ [](df # 0 => Df.columns = DataColumns)
    /\ [][df # 0 => (df' = df /\ heap'[df] = heap[df])]_vars

\* C9 witness: the alert counts computed, the DateTime column in the copy and
\* not in df
C9_Witness ==
    /\ AlertsDone
    /\ RowCount > 0
    /\ df_dashboard # df
    /\ "DateTime" \in Dashboard.columns
    /\ "DateTime" \notin Df.columns
    /\ Dashboard.rows # Df.rows

Ended == pc \in {"failed", "done"}

\* C5 as stated: with a table of zero rows the run ends in an error raised by
\* the computation of the summary metrics (lines 50 to 54), and no NaN
\* metric is displayed.
C5_EmptyTableFailsInMetrics ==
    (Ended /\ df # 0 /\ RowCount = 0) =>
        /\ error.type # "none"
        /\ error.line \in 50..54
        /\ metrics = << >>

\* the rows of the file whose Timestamp is not a date-time
NotADateTime == {i \in 1..Len(file) : file[i]["Timestamp"].kind # "ts"}

\* C6 as stated: when some row's timestamp is not a date-time, load_data
\* raises an error that names the position of such a row and returns no
\* table.
C6_UnparseableTimestampRejected ==
    (pc # "load" /\ NotADateTime # {}) =>
        /\ df = 0
        /\ error.type # "none"
        /\ error.line = 20
        /\ error.position + 1 \in NotADateTime

IsAscending(rows) ==
    \A i \in 1..(Len(rows) - 1) : rows[i].index <= rows[i + 1].index

\* C7 as stated: the loaded table is ascending by timestamp and sorting it
\* again by timestamp leaves the row order unchanged, rows that share a
\* timestamp included.
C7_SortIsIdempotent ==
    (df # 0 /\ NotADateTime = {}) =>
        /\ IsAscending(Df.rows)
        /\ SortValuesOutcomes(Df.rows) = {Df.rows}

====
